---- MODULE Spec2Model ----
(***************************************************************************)
(* Minesweeper: Cell / Board / MinesweeperGame (src/minesweeper.py) and     *)
(* the MinesweeperEnv adapter (src/minesweeper_env.py).                     *)
(*                                                                         *)
(* Rewards are floats with one decimal in the source; they are modelled in *)
(* tenths: -10.0 is -100, -1.0 is -10, 0.0 is 0, 0.1 is 1, 1.0 is 10 and    *)
(* 10.0 is 100.                                                            *)
(***************************************************************************)
EXTENDS Integers, Sequences, FiniteSets, TLC

\* Bounds of the model: the board sizes a session may be constructed with
\* (rows, columns, cells), and the number of steps explored per episode.
MaxRows == 2
MaxCols == 3
MaxCells == 6
MaxMoves == 3

VARIABLES
    board,              \* MinesweeperGame.board: the Board (record of its fields)
    game_over,          \* MinesweeperGame.game_over
    won,                \* MinesweeperGame.won
    move_count,         \* MinesweeperGame.move_count
    action_space_size,  \* MinesweeperEnv.action_space_size
    observation_shape,  \* MinesweeperEnv.observation_shape
    ret,                \* what the last reset()/step() call returned
    bfs                 \* locals of a running _reveal_adjacent_cells_bfs

game_vars == <<board, game_over, won, move_count>>
env_vars == <<action_space_size, observation_shape>>
vars == <<board, game_over, won, move_count, action_space_size,
          observation_shape, ret, bfs>>

\* No flood-fill is running: between two calls its locals do not exist.
BfsIdle == [queue |-> << >>, visited |-> {}, added |-> << >>, expanded |-> << >>]

HIDDEN == "hidden"
REVEALED == "revealed"
FLAGGED == "flagged"

\* ---------------------------------------------------------------- Board --

Cells(b) == (0 .. b.rows - 1) \X (0 .. b.cols - 1)

InBounds(b, row, col) == 0 <= row /\ row < b.rows /\ 0 <= col /\ col < b.cols

\* Board.__init__: a grid of fresh Cells (not a mine, hidden, 0 adjacent).
NewBoard(rows, cols, num_mines) ==
    [rows |-> rows, cols |-> cols, num_mines |-> num_mines,
     is_mine |-> [p \in (0 .. rows - 1) \X (0 .. cols - 1) |-> FALSE],
     state |-> [p \in (0 .. rows - 1) \X (0 .. cols - 1) |-> HIDDEN],
     adjacent_mines |-> [p \in (0 .. rows - 1) \X (0 .. cols - 1) |-> 0],
     game_over |-> FALSE, first_move |-> TRUE, revealed_count |-> 0]

\* The (dr, dc) pairs in the order of the two nested loops over [-1, 0, 1].
Offsets == << <<-1, -1>>, <<-1, 0>>, <<-1, 1>>, <<0, -1>>, <<0, 1>>,
              <<1, -1>>, <<1, 0>>, <<1, 1>> >>

RECURSIVE AdjacentFrom(_, _, _, _)
AdjacentFrom(b, row, col, i) ==
    IF i > Len(Offsets) THEN << >>
    ELSE LET p == <<row + Offsets[i][1], col + Offsets[i][2]>>
         IN  IF InBounds(b, p[1], p[2])
             THEN <<p>> \o AdjacentFrom(b, row, col, i + 1)
             ELSE AdjacentFrom(b, row, col, i + 1)

\* Board.get_adjacent_cells: the in-bounds neighbours, in loop order.
get_adjacent_cells(b, row, col) == AdjacentFrom(b, row, col, 1)

\* _calculate_adjacent_mines looking at the four orthogonal neighbours only.
calculate_adjacent_mines_orthogonal(b) ==
    [b EXCEPT !.adjacent_mines =
        [p \in Cells(b) |->
            IF ~b.is_mine[p]
            THEN Cardinality({i \in {2, 4, 5, 7} :
                    LET q == <<p[1] + Offsets[i][1], p[2] + Offsets[i][2]>>
                    IN  InBounds(b, q[1], q[2]) /\ b.is_mine[q]})
            ELSE b.adjacent_mines[p]]]

\* Board._calculate_adjacent_mines: non-mine cells get their mine-neighbour
\* count, mine cells keep the value they had.
calculate_adjacent_mines(b) ==
    [b EXCEPT !.adjacent_mines =
        [p \in Cells(b) |->
            IF ~b.is_mine[p]
            THEN Cardinality({i \in 1 .. Len(Offsets) :
                    LET q == <<p[1] + Offsets[i][1], p[2] + Offsets[i][2]>>
                    IN  InBounds(b, q[1], q[2]) /\ b.is_mine[q]})
            ELSE b.adjacent_mines[p]]]

\* The positions without the exclusion of the first cell.
positions_all(b, first_row, first_col) == Cells(b)

\* The positions place_mines samples from: every cell but the first one.
positions(b, first_row, first_col) == Cells(b) \ {<<first_row, first_col>>}

\* The outcomes of random.sample(positions, num_mines).
sample(S, k) == {M \in SUBSET S : Cardinality(M) = k}

\* Board.place_mines with mine_positions the sample drawn.
place_mines(b, mine_positions) ==
    calculate_adjacent_mines(
        [b EXCEPT !.is_mine = [p \in Cells(b) |->
                                  b.is_mine[p] \/ p \in mine_positions]])

\* Cell.reveal on cell p: [board, result].
cell_reveal(b, p) ==
    IF b.state[p] = FLAGGED THEN [board |-> b, result |-> FALSE]
    ELSE [board |-> [b EXCEPT !.state[p] = REVEALED], result |-> b.is_mine[p]]

\* toggle_flag that never takes a flag off.
toggle_flag_sticky(b, p) ==
    IF b.state[p] = REVEALED THEN [board |-> b, result |-> FALSE]
    ELSE IF b.state[p] = HIDDEN
         THEN [board |-> [b EXCEPT !.state[p] = FLAGGED], result |-> TRUE]
         ELSE [board |-> b, result |-> FALSE]

\* Cell.toggle_flag on cell p: [board, result].
toggle_flag(b, p) ==
    IF b.state[p] = REVEALED THEN [board |-> b, result |-> FALSE]
    ELSE IF b.state[p] = HIDDEN
         THEN [board |-> [b EXCEPT !.state[p] = FLAGGED], result |-> TRUE]
         ELSE [board |-> [b EXCEPT !.state[p] = HIDDEN], result |-> FALSE]

\* The inner for loop never appending to the queue: only the start cell's
\* neighbours are revealed.
RECURSIVE bfs_neighbours_no_frontier(_, _, _, _)
bfs_neighbours_no_frontier(b, queue, adj, i) ==
    IF i > Len(adj) THEN [board |-> b, queue |-> queue]
    ELSE IF b.state[adj[i]] = HIDDEN
         THEN LET b1 == cell_reveal(b, adj[i]).board
                  b2 == [b1 EXCEPT !.revealed_count = b1.revealed_count + 1]
              IN  bfs_neighbours_no_frontier(b2, queue, adj, i + 1)
         ELSE bfs_neighbours_no_frontier(b, queue, adj, i + 1)

\* The inner for loop of _reveal_adjacent_cells_bfs over the neighbours
\* adj[i..]: [board, queue].
RECURSIVE bfs_neighbours(_, _, _, _)
bfs_neighbours(b, queue, adj, i) ==
    IF i > Len(adj) THEN [board |-> b, queue |-> queue]
    ELSE IF b.state[adj[i]] = HIDDEN
         THEN LET b1 == cell_reveal(b, adj[i]).board
                  b2 == [b1 EXCEPT !.revealed_count = b1.revealed_count + 1]
              IN  IF b2.adjacent_mines[adj[i]] = 0
                  THEN bfs_neighbours(b2, Append(queue, adj[i]), adj, i + 1)
                  ELSE bfs_neighbours(b2, queue, adj, i + 1)
         ELSE bfs_neighbours(b, queue, adj, i + 1)

\* The while loop of _reveal_adjacent_cells_bfs. Beside the board it returns
\* what the loop did: the cells appended to the queue (added), the cells
\* whose neighbours were visited (expanded), in order, and the number of
\* iterations (popped).
RECURSIVE bfs_loop(_, _, _, _)
bfs_loop(b, queue, visited, done) ==
    IF queue = << >>
    THEN [board |-> b, added |-> done.added, expanded |-> done.expanded,
          popped |-> done.popped]
    ELSE LET p == Head(queue)
         IN  IF p \in visited
             THEN bfs_loop(b, Tail(queue), visited,
                           [done EXCEPT !.popped = done.popped + 1])
             ELSE LET r == bfs_neighbours(b, Tail(queue),
                               get_adjacent_cells(b, p[1], p[2]), 1)
                  IN  bfs_loop(r.board, r.queue, visited \cup {p},
                               [added |-> done.added \o
                                    SubSeq(r.queue, Len(queue), Len(r.queue)),
                                expanded |-> Append(done.expanded, p),
                                popped |-> done.popped + 1])

\* A call of Board._reveal_adjacent_cells_bfs: [board, added, expanded, popped].
bfs_run(b, start_row, start_col) ==
    bfs_loop(b, << <<start_row, start_col>> >>, {},
             [added |-> << >>, expanded |-> << >>, popped |-> 0])

\* Board._reveal_adjacent_cells_bfs.
reveal_adjacent_cells_bfs(b, start_row, start_col) ==
    bfs_run(b, start_row, start_col).board

\* reveal_cell's reveal of a cell that is no mine: Revealed, and counted.
reveal_counted(b, p) ==
    LET b1 == cell_reveal(b, p).board
    IN  [b1 EXCEPT !.revealed_count = b1.revealed_count + 1]

\* reveal_cell that runs the flood-fill after every safe reveal, whatever
\* the cell's adjacent_mines.
reveal_placed_always_fills(b, row, col) ==
    LET p == <<row, col>>
    IN  IF b.state[p] = FLAGGED THEN [board |-> b, result |-> FALSE]
        ELSE LET r == cell_reveal(b, p)
             IN  IF r.result
                 THEN [board |-> [r.board EXCEPT !.game_over = TRUE],
                       result |-> TRUE]
                 ELSE [board |-> reveal_adjacent_cells_bfs(reveal_counted(b, p),
                                                           row, col),
                       result |-> FALSE]

\* The part of Board.reveal_cell after mine placement, on board b.
reveal_placed(b, row, col) ==
    LET p == <<row, col>>
    IN  IF b.state[p] = FLAGGED THEN [board |-> b, result |-> FALSE]
        ELSE LET r == cell_reveal(b, p)
             IN  IF r.result
                 THEN [board |-> [r.board EXCEPT !.game_over = TRUE],
                       result |-> TRUE]
                 ELSE LET b1 == reveal_counted(b, p)
                      IN  [board |-> IF b1.adjacent_mines[p] = 0
                                     THEN reveal_adjacent_cells_bfs(b1, row, col)
                                     ELSE b1,
                           result |-> FALSE]

\* The samples the call reveal_cell(row, col) may draw: those of place_mines
\* when the call places the mines, one dummy (nothing is drawn) otherwise.
reveal_samples(b, row, col) ==
    IF ~b.game_over /\ InBounds(b, row, col) /\ b.first_move
    THEN sample(positions(b, row, col), b.num_mines)
    ELSE {{}}

\* reveal_cell that leaves Board.game_over as it is when a mine is hit.
reveal_cell_no_latch(b, row, col, mine_positions) ==
    IF b.game_over \/ ~InBounds(b, row, col)
    THEN [board |-> b, result |-> FALSE]
    ELSE LET r == IF b.first_move
                  THEN reveal_placed([place_mines(b, mine_positions)
                                        EXCEPT !.first_move = FALSE], row, col)
                  ELSE reveal_placed(b, row, col)
         IN  [board |-> [r.board EXCEPT !.game_over = b.game_over],
              result |-> r.result]

\* Board.reveal_cell: [board, result], result TRUE iff a mine was hit.
reveal_cell(b, row, col, mine_positions) ==
    IF b.game_over \/ ~InBounds(b, row, col)
    THEN [board |-> b, result |-> FALSE]
    ELSE IF b.first_move
         THEN reveal_placed([place_mines(b, mine_positions)
                                EXCEPT !.first_move = FALSE], row, col)
         ELSE reveal_placed(b, row, col)

\* flag_cell without the game_over guard.
flag_cell_ignores_game_over(b, row, col) ==
    IF ~InBounds(b, row, col)
    THEN [board |-> b, result |-> FALSE]
    ELSE toggle_flag(b, <<row, col>>)

\* Board.flag_cell: [board, result].
flag_cell(b, row, col) ==
    IF b.game_over \/ ~InBounds(b, row, col)
    THEN [board |-> b, result |-> FALSE]
    ELSE toggle_flag(b, <<row, col>>)

\* Board.is_won.
is_won(b) == b.revealed_count = b.rows * b.cols - b.num_mines

\* ------------------------------------------------------ MinesweeperGame --

\* The reward of the dispatch in MinesweeperGame.step, before the win check.
dispatch_reward(action_type, hit_mine, b) ==
    IF action_type = "reveal"
    THEN IF hit_mine THEN -100 ELSE IF is_won(b) THEN 10 ELSE 1
    ELSE IF action_type = "flag" THEN 0
    ELSE -10

\* The board operation MinesweeperGame.step dispatches to: [board, result].
dispatch(action_type, row, col, mine_positions) ==
    IF action_type = "reveal" THEN reveal_cell(board, row, col, mine_positions)
    ELSE IF action_type = "flag" THEN flag_cell(board, row, col)
    ELSE [board |-> board, result |-> FALSE]

\* The win check firing only when the win is new.
win_check_newly(b) == is_won(b) /\ ~won

\* The win check of MinesweeperGame.step on the board after the dispatch.
win_check(b) == is_won(b)

\* The samples a step may draw (only a reveal draws any).
step_samples(row, col, action_type) ==
    IF action_type = "reveal" THEN reveal_samples(board, row, col) ELSE {{}}

\* MinesweeperEnv._get_observation.
get_observation(b) ==
    [p \in (0 .. observation_shape[1] - 1) \X (0 .. observation_shape[2] - 1) |->
        IF b.state[p] = REVEALED THEN b.adjacent_mines[p]
        ELSE IF b.state[p] = FLAGGED THEN -2
        ELSE -1]

NoInfo == [move_count |-> -1, revealed_count |-> -1, won |-> FALSE,
           game_over |-> FALSE]

\* step that counts a move only while the game is in progress.
game_step_counts_live(row, col, action_type, mine_positions) ==
    LET r == dispatch(action_type, row, col, mine_positions)
        hit_mine == action_type = "reveal" /\ r.result
        over == game_over \/ hit_mine
        win == won \/ win_check(r.board)
    IN  /\ board' = r.board
        /\ game_over' = over
        /\ move_count' = (IF game_over \/ won THEN move_count ELSE move_count + 1)
        /\ won' = win
        /\ ret' = [op |-> action_type,
                   hit_mine |-> hit_mine,
                   observation |-> get_observation(r.board),
                   reward |-> IF win_check(r.board) THEN 100
                              ELSE dispatch_reward(action_type, hit_mine, r.board),
                   done |-> over \/ win,
                   error |-> FALSE,
                   info |-> [move_count |-> (IF game_over \/ won THEN move_count
                                            ELSE move_count + 1),
                             revealed_count |-> r.board.revealed_count,
                             won |-> win, game_over |-> over]]
        /\ UNCHANGED <<env_vars, bfs>>

\* MinesweeperGame.step((row, col, action_type)), as MinesweeperEnv.step and
\* make_move call it; ret is (observation, reward, done, info).
game_step(row, col, action_type, mine_positions) ==
    LET r == dispatch(action_type, row, col, mine_positions)
        hit_mine == action_type = "reveal" /\ r.result
        over == game_over \/ hit_mine
        win == won \/ win_check(r.board)
    IN  /\ board' = r.board
        /\ game_over' = over
        /\ move_count' = move_count + 1
        /\ won' = win
        /\ ret' = [op |-> action_type,
                   hit_mine |-> hit_mine,
                   observation |-> get_observation(r.board),
                   reward |-> IF win_check(r.board) THEN 100
                              ELSE dispatch_reward(action_type, hit_mine, r.board),
                   done |-> over \/ win,
                   error |-> FALSE,
                   info |-> [move_count |-> move_count + 1,
                             revealed_count |-> r.board.revealed_count,
                             won |-> win, game_over |-> over]]
        /\ UNCHANGED <<env_vars, bfs>>

\* random.sample(positions, num_mines) raises ValueError when num_mines is
\* negative or larger than the population: TRUE iff this step's reveal_cell
\* reaches place_mines and the draw raises.
sample_raises(row, col, action_type) ==
    /\ action_type = "reveal"
    /\ ~board.game_over
    /\ InBounds(board, row, col)
    /\ board.first_move
    /\ ~(0 <= board.num_mines
          /\ board.num_mines <= Cardinality(positions(board, row, col)))

\* The ValueError of the draw leaves MinesweeperGame.step before anything is
\* assigned: the caller gets the exception, no field has changed.
step_raises ==
    /\ ret' = [op |-> "raise", hit_mine |-> FALSE,
               observation |-> get_observation(board), reward |-> 0,
               done |-> FALSE, error |-> TRUE, info |-> NoInfo]
    /\ UNCHANGED <<game_vars, env_vars, bfs>>

\* A call of MinesweeperGame.step((row, col, action_type)) with any of the
\* samples it may draw.
game_call(row, col, action_type) ==
    IF sample_raises(row, col, action_type)
    THEN step_raises
    ELSE \E mine_positions \in step_samples(row, col, action_type) :
            game_step(row, col, action_type, mine_positions)

\* ------------------------------------------------------- MinesweeperEnv --

\* The range check with an inclusive upper end.
action_in_range_inclusive(action) == 0 <= action /\ action <= action_space_size

\* The range check of _action_to_tuple: FALSE is the ValueError.
action_in_range(action) == 0 <= action /\ action < action_space_size

\* _action_to_tuple dividing the cell index by the number of rows.
action_to_tuple_by_rows(action) ==
    LET rows == observation_shape[1]
        cols == observation_shape[2]
        num_reveal_actions == rows * cols
        action_type == IF action < num_reveal_actions THEN "reveal" ELSE "flag"
        cell_index == IF action < num_reveal_actions THEN action
                      ELSE action - num_reveal_actions
    IN  <<cell_index \div rows, cell_index % rows, action_type>>

\* MinesweeperEnv._action_to_tuple for an action in range.
action_to_tuple(action) ==
    LET rows == observation_shape[1]
        cols == observation_shape[2]
        num_reveal_actions == rows * cols
        action_type == IF action < num_reveal_actions THEN "reveal" ELSE "flag"
        cell_index == IF action < num_reveal_actions THEN action
                      ELSE action - num_reveal_actions
    IN  <<cell_index \div cols, cell_index % cols, action_type>>

\* An except branch that reports done = False.
env_step_error_not_done ==
    /\ ret' = [op |-> "invalid", hit_mine |-> FALSE,
               observation |-> get_observation(board), reward |-> -10,
               done |-> FALSE, error |-> TRUE, info |-> NoInfo]
    /\ UNCHANGED <<game_vars, env_vars, bfs>>

\* The except branch of MinesweeperEnv.step.
env_step_error ==
    /\ ret' = [op |-> "invalid", hit_mine |-> FALSE,
               observation |-> get_observation(board), reward |-> -10,
               done |-> game_over \/ won, error |-> TRUE, info |-> NoInfo]
    /\ UNCHANGED <<game_vars, env_vars, bfs>>

\* MinesweeperEnv.step(action).
env_step(action) ==
    IF action_in_range(action)
    THEN LET t == action_to_tuple(action)
         IN  /\ move_count < MaxMoves
             /\ game_call(t[1], t[2], t[3])
    ELSE env_step_error

\* The integers a caller passes to MinesweeperEnv.step: every action of the
\* action space, and the integers next to it on both sides.
ActionInputs == -1 .. 2 * board.rows * board.cols + 1

\* The targets just off the grid, one on each side.
OffGrid == {<<-1, 0>>, <<board.rows, 0>>, <<0, -1>>, <<0, board.cols>>}

\* The calls of MinesweeperGame.step that the adapter cannot make (make_move
\* from the command line loop): a target off the grid, or an unknown tag.
MoveInputs ==
    {<<p[1], p[2], tag>> : p \in OffGrid, tag \in {"reveal", "flag"}}
        \cup {<<0, 0, "other">>}

\* The return value of reset() and of the constructor (no step made yet).
fresh_ret(op) ==
    [op |-> op, hit_mine |-> FALSE,
     observation |-> get_observation(NewBoard(board.rows, board.cols, board.num_mines)),
     reward |-> 0, done |-> FALSE, error |-> FALSE, info |-> NoInfo]

\* MinesweeperEnv.__init__ -> MinesweeperGame.__init__ with valid parameters:
\* rows >= 1, cols >= 1, 0 <= num_mines < rows * cols.
Init ==
    /\ \E rows \in 1 .. MaxRows, cols \in 1 .. MaxCols :
         /\ rows * cols <= MaxCells
         /\ \E num_mines \in 0 .. rows * cols - 1 :
               board = NewBoard(rows, cols, num_mines)
    /\ game_over = FALSE
    /\ won = FALSE
    /\ move_count = 0
    /\ action_space_size = board.rows * board.cols * 2
    /\ observation_shape = <<board.rows, board.cols>>
    /\ ret = fresh_ret("init")
    /\ bfs = BfsIdle

\* reset that leaves move_count as it is.
ResetKeepsMoveCount ==
    /\ board' = NewBoard(board.rows, board.cols, board.num_mines)
    /\ game_over' = FALSE
    /\ won' = FALSE
    /\ ret' = fresh_ret("reset")
    /\ UNCHANGED <<move_count, env_vars, bfs>>

\* MinesweeperEnv.reset -> MinesweeperGame.reset.
Reset ==
    /\ board' = NewBoard(board.rows, board.cols, board.num_mines)
    /\ game_over' = FALSE
    /\ won' = FALSE
    /\ move_count' = 0
    /\ ret' = fresh_ret("reset")
    /\ UNCHANGED <<env_vars, bfs>>

\* A call of MinesweeperEnv.step.
EnvStep == \E action \in ActionInputs : env_step(action)

\* A call of MinesweeperGame.make_move.
MakeMove ==
    /\ move_count < MaxMoves
    /\ \E t \in MoveInputs : game_call(t[1], t[2], t[3])

Next == Reset \/ EnvStep \/ MakeMove

Spec == Init /\ [][Next]_vars

\* The constructors with any parameters: Board.__init__, MinesweeperGame.__init__
\* and MinesweeperEnv.__init__ check none of them. range() of a number below 1
\* is empty, so such a board has no cells.
InitAny ==
    /\ \E rows \in 0 .. MaxRows, cols \in 0 .. MaxCols :
         /\ rows * cols <= MaxCells
         /\ \E num_mines \in -1 .. rows * cols + 1 :
               board = NewBoard(rows, cols, num_mines)
    /\ game_over = FALSE
    /\ won = FALSE
    /\ move_count = 0
    /\ action_space_size = board.rows * board.cols * 2
    /\ observation_shape = <<board.rows, board.cols>>
    /\ ret = fresh_ret("init")
    /\ bfs = BfsIdle

SpecAny == InitAny /\ [][Next]_vars

\* ---------------------------------------------------------------- Claims --

\* The cells a full-grid scan finds Revealed.
RevealedCells(b) == {p \in Cells(b) : b.state[p] = REVEALED}

\* Mines are placed and every non-mine cell is Revealed.
AllSafeRevealed(b) ==
    /\ ~b.first_move
    /\ \A p \in Cells(b) : ~b.is_mine[p] => b.state[p] = REVEALED

\* The operations of a step with a decodable action.
StepOps == {"reveal", "flag"}

\* C1: in every reachable state revealed_count equals the number of cells a
\* full-grid scan finds Revealed.
C1_RevealedCountIsScan ==
    board.revealed_count = Cardinality(RevealedCells(board))

\* C2: the first cell of a fresh board whose visibility becomes Revealed is
\* not a mine: a step from a board with no Revealed cell to a board with one
\* reveals no mine.
C2_FirstRevealedNotMine ==
    [][(RevealedCells(board) = {} /\ RevealedCells(board') # {})
          => \A p \in RevealedCells(board') : ~board'.is_mine[p]]_vars

\* C3: in a game that is not done, the reveal step after which every
\* non-mine cell is Revealed returns reward 10.0, done = true and won = true.
C3_FinalSafeRevealWins ==
    [][(/\ ~(game_over \/ won)
        /\ ret'.op = "reveal"
        /\ ~AllSafeRevealed(board)
        /\ AllSafeRevealed(board'))
          => (ret'.reward = 100 /\ ret'.done /\ ret'.info.won)]_vars

\* C4: once won, a reveal or flag step changes no cell's visibility, not
\* revealed_count, not game_over, and returns the observation as it was.
C4_WonStepsAreNoOps ==
    [][(won /\ ret'.op \in StepOps)
          => (/\ board'.state = board.state
              /\ board'.revealed_count = board.revealed_count
              /\ board'.game_over = board.game_over
              /\ game_over' = game_over
              /\ ret'.observation = get_observation(board))]_vars

\* C5: once a reveal has hit a mine (game_over), every later step returns the
\* observation as it was, changes no visibility, no mine and not
\* revealed_count, and returns done = true.
C5_LostStepsAreNoOps ==
    [][(game_over /\ ret'.op # "reset")
          => (/\ ret'.observation = get_observation(board)
              /\ ret'.observation = ret.observation
              /\ board'.state = board.state
              /\ board'.is_mine = board.is_mine
              /\ board'.revealed_count = board.revealed_count
              /\ ret'.done
              /\ game_over')]_vars

\* C5 witness: a flag step and a reveal step were made on a lost game.
C5_Witness ==
    /\ game_over
    /\ ret.op = "flag"
    /\ \E p \in Cells(board) : board.state[p] = HIDDEN

\* C6: a reveal step in which reveal_cell returned true returns reward
\* -10.0, done = true and game_over = true in info.
C6_MineHitPenalty ==
    (ret.op = "reveal" /\ ret.hit_mine)
        => (ret.reward = -100 /\ ret.done /\ ret.info.game_over)

\* C7: every flag step returns reward 0.0.
C7_FlagRewardZero == ret.op = "flag" => ret.reward = 0

\* C8: for every action outside [0, 2*rows*cols), MinesweeperEnv.step
\* returns reward -1.0, done = the terminal status before the call, an error
\* in info and the observation as it was, and changes nothing of the game.
C8_OutOfRangeRejected ==
    [][\A action \in ActionInputs :
          (/\ ~(0 <= action /\ action < 2 * board.rows * board.cols)
           /\ env_step(action))
             => (/\ ret'.reward = -10
                 /\ ret'.done = (game_over \/ won)
                 /\ ret'.error
                 /\ ret'.observation = get_observation(board)
                 /\ board' = board
                 /\ game_over' = game_over
                 /\ won' = won
                 /\ move_count' = move_count)]_vars

\* C8 witness: an out-of-range action was rejected on a game in which moves
\* were made and which is terminal.
C8_Witness ==
    /\ ret.op = "invalid"
    /\ ret.done
    /\ move_count > 0
    /\ board.revealed_count > 0

\* Re-encoding of a decoded triple: row*cols + col, plus rows*cols for Flag.
encode(t) ==
    t[1] * board.cols + t[2] + (IF t[3] = "flag" THEN board.rows * board.cols ELSE 0)

\* C9: _action_to_tuple is a bijection from [0, 2*rows*cols) onto
\* rows x cols x {reveal, flag}: injective, in bounds, onto, and re-encoding
\* recovers the action.
C9_DecodeBijection ==
    LET A == 0 .. 2 * board.rows * board.cols - 1
    IN  /\ \A a \in A :
             /\ InBounds(board, action_to_tuple(a)[1], action_to_tuple(a)[2])
             /\ action_to_tuple(a)[3] \in StepOps
             /\ encode(action_to_tuple(a)) = a
        /\ \A a, b \in A : action_to_tuple(a) = action_to_tuple(b) => a = b
        /\ \A p \in Cells(board), tag \in StepOps :
             \E a \in A : action_to_tuple(a) = <<p[1], p[2], tag>>

\* C9 witness: a decoded flag action was stepped on a board with more
\* columns than rows and more than one row.
C9_Witness ==
    /\ ret.op = "flag"
    /\ board.rows > 1
    /\ board.cols > board.rows
    /\ \E p \in Cells(board) : p[1] > 0 /\ p[2] > 0 /\ board.state[p] = FLAGGED

\* C10: after reset, from any state, the observation is all -1, the counters
\* and flags are cleared, no mine is placed, and rows, cols, mine_count and
\* action_space_size = 2*rows*cols are as before.
C10_ResetIsFresh ==
    [][ret'.op = "reset"
          => (/\ \A p \in Cells(board') : ret'.observation[p] = -1
              /\ \A p \in Cells(board') : board'.state[p] = HIDDEN
              /\ \A p \in Cells(board') : ~board'.is_mine[p]
              /\ move_count' = 0
              /\ board'.revealed_count = 0
              /\ ~won'
              /\ ~game_over'
              /\ ~board'.game_over
              /\ board'.rows = board.rows
              /\ board'.cols = board.cols
              /\ board'.num_mines = board.num_mines
              /\ action_space_size' = action_space_size
              /\ action_space_size' = 2 * board'.rows * board'.cols)]_vars

\* C10 witness: reset has returned.
C10_Witness == ret.op = "reset" /\ board.num_mines > 0

\* The parameters the specification allows a session to be constructed with.
ValidParams(b) ==
    b.rows >= 1 /\ b.cols >= 1 /\ 0 <= b.num_mines /\ b.num_mines < b.rows * b.cols

\* C11: construction with rows < 1, cols < 1, mine_count < 0 or
\* mine_count >= rows*cols fails, so no reset or step ever returns on a
\* session with such parameters.
C11_InvalidConstructionFails ==
    ret.op \in {"reset", "reveal", "flag"} => ValidParams(board)

\* The 8-connected in-bounds neighbours of cell p.
Neighbours(b, p) ==
    {q \in Cells(b) : /\ q # p
                      /\ q[1] - p[1] \in {-1, 0, 1}
                      /\ q[2] - p[2] \in {-1, 0, 1}}

\* Cell q is no mine and has no mine next to it.
ZeroCell(b, q) == ~b.is_mine[q] /\ b.adjacent_mines[q] = 0

\* The cells reachable from the cells S through chains of zero-adjacency
\* neighbours taken from the set through.
RECURSIVE Chain(_, _, _)
Chain(b, S, through) ==
    LET N == {q \in through \ S :
                ZeroCell(b, q) /\ \E c \in S : q \in Neighbours(b, c)}
    IN  IF N = {} THEN S ELSE Chain(b, S \cup N, through)

\* This step is a call of MinesweeperGame.step that reveals cell p.
RevealAt(p) ==
    /\ ret'.op = "reveal"
    /\ \E mine_positions \in step_samples(p[1], p[2], "reveal") :
          game_step(p[1], p[2], "reveal", mine_positions)

\* This step is a reveal that lands on p, a cell that is no mine and has no
\* mine next to it: the game is not lost and p is not Flagged.
LandsOnZero(p) ==
    /\ ~board.game_over
    /\ board.state[p] # FLAGGED
    /\ ZeroCell(board', p)
    /\ RevealAt(p)

\* The cells Flagged before this step are not Revealed after it.
FlaggedKept ==
    \A q \in Cells(board) : board.state[q] = FLAGGED => board'.state[q] # REVEALED

\* C12 as stated: after a reveal that lands on a zero-adjacency cell, every
\* cell on a chain of zero-adjacency neighbours from it and every neighbour
\* of such a cell is Revealed, and no cell Flagged before is Revealed.
C12_FloodFillAsStated ==
    [][\A p \in Cells(board) :
          LandsOnZero(p)
             => (/\ \A c \in Chain(board', {p}, Cells(board)) :
                       /\ board'.state[c] = REVEALED
                       /\ \A n \in Neighbours(board, c) : board'.state[n] = REVEALED
                 /\ FlaggedKept)]_vars

\* C12 amended: the chain runs through the zero-adjacency cells that were
\* Hidden before the reveal; the cells on it are Revealed, and so is every
\* neighbour of theirs that was not Flagged before; no cell Flagged before
\* is Revealed.
C12_FloodFill ==
    [][\A p \in Cells(board) :
          LandsOnZero(p)
             => (/\ \A c \in Chain(board', {p},
                                   {q \in Cells(board) : board.state[q] = HIDDEN}) :
                       /\ board'.state[c] = REVEALED
                       /\ \A n \in Neighbours(board, c) :
                             board.state[n] # FLAGGED => board'.state[n] = REVEALED
                 /\ FlaggedKept)]_vars

\* C12 witness: a flood-fill went round a Flagged cell: a zero-adjacency
\* cell is Revealed, a neighbour of it is Flagged, and a cell two steps from
\* it on the chain is Revealed.
C12_Witness ==
    /\ ret.op = "reveal"
    /\ ~ret.hit_mine
    /\ move_count = 2
    /\ \E p, q, f \in Cells(board) :
          /\ board.state[p] = REVEALED /\ ZeroCell(board, p)
          /\ board.state[q] = REVEALED /\ ZeroCell(board, q)
          /\ q \in Neighbours(board, p)
          /\ board.state[f] = FLAGGED /\ f \in Neighbours(board, p)
          /\ \E n \in Neighbours(board, q) \ Neighbours(board, p) :
                n # p /\ board.state[n] = REVEALED

\* C13: the controller is in exactly one of InProgress, Lost, Won: won and
\* game_over are never both true.
C13_WonAndLostExclusive == ~(won /\ game_over)

\* C20: whenever the controller's won flag is true, every non-mine cell is
\* Revealed.
C20_WonImpliesAllSafeRevealed == won => AllSafeRevealed(board)

\* The cells that hold a mine.
Mines(b) == {p \in Cells(b) : b.is_mine[p]}

\* No mine before the first in-bounds reveal_cell call, num_mines after it.
MinesDeferred ==
    /\ board.first_move => Mines(board) = {}
    /\ ~board.first_move => Cardinality(Mines(board)) = board.num_mines

\* What each step does to the mines.
MinesPlacedOnce ==
    /\ ret'.op \in {"flag", "invalid", "other"}
          => (board'.is_mine = board.is_mine /\ board'.first_move = board.first_move)
    /\ \A t \in MoveInputs :
          (ret'.op = t[3] /\ game_call(t[1], t[2], t[3]))
             => (board'.is_mine = board.is_mine /\ board'.first_move = board.first_move)
    /\ \A p \in Cells(board) :
          (board.first_move /\ RevealAt(p))
             => (/\ ~board'.first_move
                 /\ Cardinality(Mines(board')) = board.num_mines
                 /\ p \notin Mines(board'))
    /\ (~board.first_move /\ ret'.op # "reset")
          => (board'.is_mine = board.is_mine /\ ~board'.first_move)
    /\ ret'.op = "reset" => (Mines(board') = {} /\ board'.first_move)

\* C14: the board holds no mine from construction or reset until the first
\* in-bounds reveal_cell call; flag steps and out-of-bounds reveals place
\* none; that first call places exactly num_mines mines on distinct cells
\* other than its target; from then until reset the mines never change.
C14_MinesPlacedOnce == []MinesDeferred /\ [][MinesPlacedOnce]_vars

\* C14 witness: the first reveal has placed two or more mines, and flag
\* steps came before it.
C14_Witness ==
    /\ ret.op = "reveal"
    /\ ~board.first_move
    /\ board.num_mines >= 2
    /\ Cardinality(Mines(board)) = board.num_mines
    /\ move_count = 3
    /\ Cardinality(RevealedCells(board)) = 1
    /\ Cardinality({p \in Cells(board) : board.state[p] = FLAGGED}) = 2

\* Cell p lies on the first or last row / column of the board.
OnRowBorder(b, p) == p[1] = 0 \/ p[1] = b.rows - 1
OnColBorder(b, p) == p[2] = 0 \/ p[2] = b.cols - 1

\* On a board of two or more rows and columns: 3 neighbours at a corner, 5
\* on an edge, 8 inside.
NeighbourCount(b, p) ==
    IF OnRowBorder(b, p) /\ OnColBorder(b, p) THEN 3
    ELSE IF OnRowBorder(b, p) \/ OnColBorder(b, p) THEN 5
    ELSE 8

\* After placement every non-mine cell's adjacent_mines is the number of
\* mines among its in-bounds neighbours.
AdjacentMinesCounted ==
    ~board.first_move =>
        \A p \in Cells(board) :
            /\ ~board.is_mine[p] =>
                  board.adjacent_mines[p]
                      = Cardinality(Neighbours(board, p) \cap Mines(board))
            /\ (board.rows >= 2 /\ board.cols >= 2) =>
                  Len(get_adjacent_cells(board, p[1], p[2])) = NeighbourCount(board, p)

C16_RewardNeverOne ==
    /\ ret.op \in {"reveal", "flag", "other"} =>
          (ret.reward # 10 /\ (is_won(board) => ret.reward = 100))
    /\ ret.op \in StepOps => ret.reward \in {-100, 0, 1, 100}

\* C16 witness: a reveal step after which is_won() holds: its reveal branch
\* computed 1.0 and the step returned 10.0.
C16_Witness ==
    /\ ret.op = "reveal"
    /\ ~ret.hit_mine
    /\ is_won(board)
    /\ ret.reward = 100
    /\ move_count >= 2
    /\ ret.info.revealed_count = Cardinality(RevealedCells(board))

\* This step is a call of MinesweeperGame.step that flags cell p.
FlagAt(p) == ret'.op = "flag" /\ game_step(p[1], p[2], "flag", {})

\* The visibility a flag toggle gives a cell.
Toggled(v) == IF v = HIDDEN THEN FLAGGED ELSE IF v = FLAGGED THEN HIDDEN ELSE v

\* A reveal step on a Flagged cell changes no visibility and not
\* revealed_count.
RevealKeepsFlagged ==
    \A p \in Cells(board) :
        (board.state[p] = FLAGGED /\ RevealAt(p))
           => (/\ board'.state = board.state
               /\ board'.revealed_count = board.revealed_count)

\* A flag step toggles its target and changes no other cell.
FlagToggles ==
    \A p \in Cells(board) :
        FlagAt(p) => /\ board'.state[p] = Toggled(board.state[p])
                     /\ \A q \in Cells(board) \ {p} :
                           board'.state[q] = board.state[q]

\* The same, on a game that is not lost; on a lost game no cell changes.
FlagTogglesUnlessLost ==
    \A p \in Cells(board) :
        FlagAt(p) => /\ board'.state[p] =
                           (IF board.game_over THEN board.state[p]
                            ELSE Toggled(board.state[p]))
                     /\ \A q \in Cells(board) \ {p} :
                           board'.state[q] = board.state[q]

\* On a game in progress, two flag_cell calls on the same cell give the
\* observation back.
TwoFlagsRestore ==
    ~(game_over \/ won) =>
        \A p \in Cells(board) :
            get_observation(
                flag_cell(flag_cell(board, p[1], p[2]).board, p[1], p[2]).board)
              = get_observation(board)

\* C17 as stated: a reveal step on a Flagged cell changes nothing visible; a
\* flag step toggles Hidden and Flagged and leaves Revealed; two flag steps
\* on a cell of a game in progress restore the observation.
C17_FlagToggleAsStated ==
    /\ [][RevealKeepsFlagged /\ FlagToggles]_vars
    /\ []TwoFlagsRestore

\* C17 amended: the flag step toggles on a game that is not lost, and
\* changes no cell on a lost game.
C17_FlagToggle ==
    /\ [][RevealKeepsFlagged /\ FlagTogglesUnlessLost]_vars
    /\ []TwoFlagsRestore

\* C17 witness: the first reveal of a game landed on a Flagged cell: the
\* mines are placed, the cell is Flagged and no cell is Revealed.
C17_Witness ==
    /\ ret.op = "reveal"
    /\ ~board.first_move
    /\ ~game_over
    /\ RevealedCells(board) = {}
    /\ \E p \in Cells(board) : board.state[p] = FLAGGED

\* A call of MinesweeperEnv.step with an action that does not decode leaves
\* move_count as it is and reports the error.
RejectedNotCounted ==
    \A action \in ActionInputs :
        (~(0 <= action /\ action < action_space_size) /\ env_step(action))
            => (move_count' = move_count /\ ret'.op = "invalid")

\* C18: move_count is the number of step calls since the last reset: reset
\* sets it to 0; every call that reaches MinesweeperGame.step (every
\* decodable action of the adapter, and make_move) adds exactly 1 and
\* reports the new value, whatever the step does to the board; a rejected
\* action adds nothing.
C18_MoveCountCountsSteps ==
    [][/\ RejectedNotCounted
       /\ ret'.op = "reset" => move_count' = 0
       /\ ret'.op \in {"reveal", "flag", "other"} =>
              (move_count' = move_count + 1 /\ ret'.info.move_count = move_count')
       /\ ret'.op \notin {"reveal", "flag", "other", "reset"} =>
              move_count' = move_count]_vars

\* C18 witness: a flag step on a lost game, which changes no cell, was
\* counted as the third step since the reset.
C18_Witness ==
    /\ board.game_over
    /\ ret.op = "flag"
    /\ ret.reward = 0
    /\ move_count = 3
    /\ ret.info.move_count = 3

\* Before any flood-fill is entered.
InitBfs ==
    /\ board = NewBoard(1, 1, 0)
    /\ game_over = FALSE
    /\ won = FALSE
    /\ move_count = 0
    /\ action_space_size = board.rows * board.cols * 2
    /\ observation_shape = <<board.rows, board.cols>>
    /\ ret = fresh_ret("init")
    /\ bfs = BfsIdle

\* _reveal_adjacent_cells_bfs(start_row, start_col) entered on any board
\* with its mines placed: any mine layout of a valid size, any visibility of
\* every cell, any start cell that is no mine and has no adjacent mine. The
\* queue holds the start cell, visited is empty.
BfsEnter ==
    /\ ret.op = "init"
    /\ \E rows \in 1 .. MaxRows, cols \in 1 .. MaxCols :
         /\ rows * cols <= MaxCells
         /\ \E num_mines \in 0 .. rows * cols - 1 :
              LET b0 == NewBoard(rows, cols, num_mines)
              IN  \E mine_positions \in sample(Cells(b0), num_mines),
                     visibility \in [Cells(b0) -> {HIDDEN, REVEALED, FLAGGED}],
                     start \in Cells(b0) :
                    LET b1 == place_mines(b0, mine_positions)
                    IN  /\ ~b1.is_mine[start]
                        /\ b1.adjacent_mines[start] = 0
                        /\ board' = [b1 EXCEPT
                                       !.first_move = FALSE,
                                       !.state = visibility,
                                       !.revealed_count =
                                           Cardinality({p \in Cells(b0) :
                                                          visibility[p] = REVEALED})]
                        /\ bfs' = [queue |-> << start >>, visited |-> {},
                                   added |-> << >>, expanded |-> << >>]
    /\ action_space_size' = board'.rows * board'.cols * 2
    /\ observation_shape' = <<board'.rows, board'.cols>>
    /\ ret' = [fresh_ret("bfs") EXCEPT !.observation = get_observation(board')]
    /\ UNCHANGED <<game_over, won, move_count>>

\* One iteration of the while loop that expands a popped cell again even
\* when it is in visited.
BfsIterNoVisited ==
    /\ bfs.queue # << >>
    /\ \E p \in {Head(bfs.queue)} :
       \E adj \in {get_adjacent_cells(board, p[1], p[2])} :
       \E r \in {bfs_neighbours(board, Tail(bfs.queue), adj, 1)} :
           /\ board' = r.board
           /\ bfs' = [queue |-> r.queue,
                      visited |-> bfs.visited \cup {p},
                      added |-> bfs.added \o
                                SubSeq(r.queue, Len(bfs.queue), Len(r.queue)),
                      expanded |-> Append(bfs.expanded, p)]
    /\ UNCHANGED <<game_over, won, move_count, env_vars, ret>>

\* One iteration of the while loop of _reveal_adjacent_cells_bfs: pop the
\* head p; skip it when visited, otherwise mark it and run the for loop
\* over its neighbours adj, which gives r. added and expanded record what
\* the loop appended to the queue and which cells it expanded.
BfsIter ==
    /\ bfs.queue # << >>
    /\ \E p \in {Head(bfs.queue)} :
         IF p \in bfs.visited
         THEN /\ bfs' = [bfs EXCEPT !.queue = Tail(bfs.queue)]
              /\ UNCHANGED board
         ELSE \E adj \in {get_adjacent_cells(board, p[1], p[2])} :
              \E r \in {bfs_neighbours(board, Tail(bfs.queue), adj, 1)} :
                  /\ board' = r.board
                  /\ bfs' = [queue |-> r.queue,
                             visited |-> bfs.visited \cup {p},
                             added |-> bfs.added \o
                                       SubSeq(r.queue, Len(bfs.queue), Len(r.queue)),
                             expanded |-> Append(bfs.expanded, p)]
    /\ UNCHANGED <<game_over, won, move_count, env_vars, ret>>

NextBfs == BfsEnter \/ BfsIter

\* The loop is sequential code: while the queue is not empty the next
\* iteration is taken.
SpecBfs == InitBfs /\ [][NextBfs]_vars /\ WF_vars(BfsIter)

\* No element occurs twice in the sequence s.
NoDuplicates(s) ==
    \A i, j \in 1 .. Len(s) : i # j => s[i] # s[j]

\* C19: the flood-fill terminates from any zero-adjacency start cell on any
\* board state: the queue eventually is empty and stays empty; no cell is
\* appended to the queue twice and no cell is expanded twice.
C19_FloodFillTerminates ==
    /\ <>[](bfs.queue = << >>)
    /\ [](NoDuplicates(bfs.added) /\ NoDuplicates(bfs.expanded))

\* C19 witness: a flood-fill has ended after expanding two cells or more,
\* and one cell it had appended was popped when already visited.
C19_Witness ==
    /\ bfs.queue = << >>
    /\ Len(bfs.expanded) >= 2
    /\ Len(bfs.added) >= Len(bfs.expanded)

\* The mine cells that are Revealed.
RevealedMines(b) == {p \in Mines(b) : b.state[p] = REVEALED}

\* A Revealed mine means a lost game, and there is at most one.
RevealedMineMeansLost ==
    /\ RevealedMines(board) # {} => (game_over /\ board.game_over)
    /\ Cardinality(RevealedMines(board)) <= 1

\* A step reveals a mine only by hitting it: a reveal that returns without a
\* hit, the flood-fill it may have run included, and every other call
\* reveal no mine; a hit reveals one mine and no other cell.
MineRevealedOnlyByHit ==
    /\ ~ret'.hit_mine =>
          \A p \in Cells(board') :
              (board'.is_mine[p] /\ board'.state[p] = REVEALED)
                 => (ret'.op # "reset" /\ board.is_mine[p] /\ board.state[p] = REVEALED)
    /\ ret'.hit_mine =>
          /\ Cardinality(RevealedMines(board')) = Cardinality(RevealedMines(board)) + 1
          /\ RevealedCells(board') \ RevealedMines(board') = RevealedCells(board)

\* C21: a mine cell is Revealed only in a lost game: whenever a mine is
\* Revealed game_over is true, at most one mine is Revealed, and the
\* flood-fill never reveals a mine.
C21_MineRevealedOnlyWhenLost ==
    []RevealedMineMeansLost /\ [][MineRevealedOnlyByHit]_vars

\* C21 witness: on a board with two or more mines a reveal hit one after a
\* flood-fill had revealed three or more safe cells; the other mines are
\* not Revealed.
C21_Witness ==
    /\ ret.hit_mine
    /\ game_over
    /\ board.num_mines >= 2
    /\ Cardinality(RevealedMines(board)) = 1
    /\ Cardinality(RevealedCells(board)) >= 4
    /\ move_count = 2

\* The calls that return a done value: the steps of the game and the
\* adapter's rejected step.
DoneOps == {"reveal", "flag", "other", "invalid"}

\* What a call does to done: a step returns game_over or won as they are
\* after it; after a step has returned done = true every call but reset
\* returns done = true, and game_over or won stays true; reset clears both.
DoneSticky ==
    /\ ret'.op \in DoneOps => ret'.done = (game_over' \/ won')
    /\ (ret.done /\ ret'.op # "reset") => (ret'.op \in DoneOps /\ ret'.done)
    /\ ((game_over \/ won) /\ ret'.op # "reset") => (game_over' \/ won')
    /\ ret'.op = "reset" => (~game_over' /\ ~won' /\ ~ret'.done)

\* C22: done is sticky: once a step has returned done = true, every later
\* step, with a valid or an out-of-range action, returns done = true until
\* reset, and only reset makes done false again.
C22_DoneIsSticky == [][DoneSticky]_vars

\* C22 witness: an out-of-range step returned done = true on a game that was
\* won and went on until is_won() no longer held.
C22_Witness ==
    /\ ret.op = "invalid"
    /\ ret.done
    /\ won
    /\ ~game_over
    /\ ~is_won(board)

\* C23: MinesweeperGame.game_over and Board.game_over agree in every state
\* reachable by reset and step calls.
C23_GameOverFlagsAgree == game_over = board.game_over

\* C23 witness: a reveal on a won game hit a mine, and both flags are set.
C23_Witness ==
    /\ ret.op = "reveal"
    /\ ret.hit_mine
    /\ won
    /\ game_over
    /\ board.game_over

====
